---------------------------- MODULE Spec2Model ----------------------------
(***************************************************************************)
(* A model of proxify: the target selection of one application             *)
(* (selectAppContainer / proxyApp), the token lifecycle of NPMServer, the  *)
(* proxy-host upsert (createProxyHost) and the orchestration in main().    *)
(*                                                                         *)
(* Strings the code inspects (labels, container names, network modes, the  *)
(* override value) are sequences of one-character strings, so that         *)
(* startsWith, replace(/regex/) and split work on characters as in the     *)
(* code.  Time is counted in minutes; Date.getTime() is in milliseconds.   *)
(***************************************************************************)
EXTENDS Integers, Sequences, FiniteSets, TLC

VARIABLES
    docker,      \* what docker.listContainers returns: a sequence of ContainerInfo
    env,         \* process.env: the APP_OVERRIDE_<APP> entries
    sel,         \* target-selection run: what the last proxyApp decided
    config,      \* process.env: NPM_MAIL/NPM_PASSWORD or NPM_TOKEN, refresh interval
    tokenData,   \* NPMServer.tokenData: Null or [token, expires]
    credentials, \* NPMServer.credentials: Null or [identity, secret]
    now,         \* the clock, in minutes
    nextTok,     \* the proxy manager: serial number of the next token it issues
    tasks,       \* the async activities: main, the timer callback, the event handlers
    timerOn,     \* refreshInterval # null: the setInterval timer is armed
    listening,   \* the container.start handler is registered
    exited,      \* "running", or "exit(<status>)" after process.exit
    ev           \* what the last step did (requests sent, results returned)

selVars == <<docker, env, sel>>
npmVars == <<config, tokenData, credentials, now, nextTok, tasks, timerOn,
             listening, exited, ev>>
vars == <<docker, env, sel, config, tokenData, credentials, now, nextTok,
          tasks, timerOn, listening, exited, ev>>

-----------------------------------------------------------------------------
(* Bounds of the model *)

MaxContainers == 2      \* longest container listing explored
MaxNow == 9             \* the clock stops here
MaxTok == 3             \* tokens the proxy manager issues
TokenTTL == 7           \* minutes a token issued by the proxy manager lives
MaxNowEv == 4           \* the clock stops here in the runs with two events

-----------------------------------------------------------------------------
(* JavaScript strings and the string functions the code uses *)

Undefined == <<"undefined">>          \* no string has a many-character element

StartsWith(s, p) == Len(s) >= Len(p) /\ SubSeq(s, 1, Len(p)) = p

Digits == {"0", "1", "2", "3", "4", "5", "6", "7", "8", "9"}

DigitVal(c) ==
    CASE c = "0" -> 0 [] c = "1" -> 1 [] c = "2" -> 2 [] c = "3" -> 3
      [] c = "4" -> 4 [] c = "5" -> 5 [] c = "6" -> 6 [] c = "7" -> 7
      [] c = "8" -> 8 [] c = "9" -> 9

ToUpperChar(c) ==
    CASE c = "a" -> "A" [] c = "b" -> "B" [] c = "d" -> "D"
      [] c = "r" -> "R" [] c = "w" -> "W" [] c = "x" -> "X" [] OTHER -> c

ToUpperCase(s) == [i \in 1..Len(s) |-> ToUpperChar(s[i])]

RECURSIVE LeadingDigits(_)
LeadingDigits(s) ==
    IF s = <<>> \/ Head(s) \notin Digits
    THEN <<>>
    ELSE <<Head(s)>> \o LeadingDigits(Tail(s))

RECURSIVE DecimalValue(_)
DecimalValue(d) ==
    IF d = <<>> THEN 0
    ELSE 10 * DecimalValue(SubSeq(d, 1, Len(d) - 1)) + DigitVal(d[Len(d)])

NaN == -1        \* parseInt's NaN; every parsed number is >= 0

\* parseInt(s, 10) on an unsigned string: the leading run of digits, NaN
\* when there is none (also for undefined)
ParseInt(s) ==
    IF s = Undefined THEN NaN
    ELSE LET d == LeadingDigits(s)
         IN  IF d = <<>> THEN NaN ELSE DecimalValue(d)

RECURSIVE IndexOf(_, _, _)
IndexOf(s, ch, from) ==
    IF from > Len(s) THEN 0
    ELSE IF s[from] = ch THEN from ELSE IndexOf(s, ch, from + 1)

\* appOverride.split(':'): the pieces between the colons
RECURSIVE Split(_)
Split(s) ==
    LET i == IndexOf(s, ":", 1)
    IN  IF i = 0 THEN <<s>>
        ELSE <<SubSeq(s, 1, i - 1)>> \o Split(SubSeq(s, i + 1, Len(s)))

\* s.split(ch) for a one-character separator
RECURSIVE SplitOn(_, _)
SplitOn(s, ch) ==
    LET i == IndexOf(s, ch, 1)
    IN  IF i = 0 THEN <<s>>
        ELSE <<SubSeq(s, 1, i - 1)>> \o SplitOn(SubSeq(s, i + 1, Len(s)), ch)

\* s.trim(): the blanks at both ends are removed
RECURSIVE Trim(_)
Trim(s) ==
    IF s = <<>> THEN s
    ELSE IF Head(s) = " " THEN Trim(Tail(s))
    ELSE IF s[Len(s)] = " " THEN Trim(SubSeq(s, 1, Len(s) - 1))
    ELSE s

\* parseInt(s) with an optional minus sign; nan when no digit follows
ParseIntSigned(s) ==
    LET neg == s # Undefined /\ s # <<>> /\ Head(s) = "-"
        v == ParseInt(IF neg THEN Tail(s) ELSE s)
    IN  IF v = NaN THEN [nan |-> TRUE, n |-> 0]
        ELSE [nan |-> FALSE, n |-> IF neg THEN 0 - v ELSE v]

\* n.replace(/^\//, "")
StripLeadingSlash(n) ==
    IF n # <<>> /\ Head(n) = "/" THEN Tail(n) ELSE n

RECURSIVE TrailingDigits(_)
TrailingDigits(n) ==
    IF n = <<>> \/ n[Len(n)] \notin Digits THEN 0
    ELSE 1 + TrailingDigits(SubSeq(n, 1, Len(n) - 1))

\* n.replace(/-\d+$/, ""): a final "-<digits>" is removed
StripOrdinal(n) ==
    LET k == TrailingDigits(n)
    IN  IF k >= 1 /\ Len(n) > k /\ n[Len(n) - k] = "-"
        THEN SubSeq(n, 1, Len(n) - k - 1)
        ELSE n

-----------------------------------------------------------------------------
(* docker.ts: what is read from a ContainerInfo *)

IxPrefix == <<"i", "x", "-">>
ModeNone == <<"n", "o", "n", "e">>
ModeHost == <<"h", "o", "s", "t">>
ModeContainerPrefix == <<"c", "o", "n", "t", "a", "i", "n", "e", "r", ":">>
ModeServicePrefix == <<"s", "e", "r", "v", "i", "c", "e", ":">>
ClusterSuffix ==
    <<".", "s", "v", "c", ".", "c", "l", "u", "s", "t", "e", "r",
      ".", "l", "o", "c", "a", "l">>

getDnsName(container) ==
    container.Labels.service \o <<".">> \o container.Labels.project
        \o ClusterSuffix

getAppName(container) ==
    LET label == container.Labels.project
    IN  IF StartsWith(label, IxPrefix)
        THEN SubSeq(label, Len(IxPrefix) + 1, Len(label))
        ELSE label

isIxAppContainerAlways(container) == TRUE

isIxAppContainer(container) ==
    StartsWith(container.Labels.project, IxPrefix)

prohibitedNetworkModeNoHost(container) ==
    \/ container.HostConfig.NetworkMode = ModeNone
    \/ StartsWith(container.HostConfig.NetworkMode, ModeContainerPrefix)
    \/ StartsWith(container.HostConfig.NetworkMode, ModeServicePrefix)

prohibitedNetworkMode(container) ==
    \/ container.HostConfig.NetworkMode \in {ModeNone, ModeHost}
    \/ StartsWith(container.HostConfig.NetworkMode, ModeContainerPrefix)
    \/ StartsWith(container.HostConfig.NetworkMode, ModeServicePrefix)

\* container.Ports: the PrivatePort of each entry, in the provider's order
\* (a missing Ports is the empty sequence)
getOpenPorts(container) == container.Ports

hasOpenPort(container, port) ==
    \E i \in 1..Len(container.Ports) : container.Ports[i] = port

-----------------------------------------------------------------------------
(* index.ts: selectAppContainer and the decision of proxyApp *)

NoTarget == [none |-> TRUE]

\* Array.prototype.find: the first element satisfying Test, here by index
FirstIndex(s, Test(_)) ==
    IF \E i \in 1..Len(s) : Test(s[i])
    THEN CHOOSE i \in 1..Len(s) :
            Test(s[i]) /\ \A j \in 1..(i - 1) : ~Test(s[j])
    ELSE 0

\* the filter both paths apply to the listing
appContainerFilter(container, appName) ==
    /\ isIxAppContainer(container)
    /\ getAppName(container) = appName
    /\ ~prohibitedNetworkMode(container)

selectAppContainerHttpFirst(listing, appName) ==
    LET Keep(c) == appContainerFilter(c, appName)
        appContainers == SelectSeq(listing, Keep)
        HasPorts(c) == Len(getOpenPorts(c)) > 0
        containersWithPorts == SelectSeq(appContainers, HasPorts)
        Has443(c) == hasOpenPort(c, 443)
        Has80(c) == hasOpenPort(c, 80)
        https == FirstIndex(containersWithPorts, Has443)
        http == FirstIndex(containersWithPorts, Has80)
    IN  IF Len(appContainers) = 0 THEN NoTarget
        ELSE IF Len(containersWithPorts) = 0 THEN NoTarget
        ELSE IF http # 0
             THEN [container |-> containersWithPorts[http],
                   port |-> 80, scheme |-> "http"]
        ELSE IF https # 0
             THEN [container |-> containersWithPorts[https],
                   port |-> 443, scheme |-> "https"]
        ELSE [container |-> containersWithPorts[1],
              port |-> getOpenPorts(containersWithPorts[1])[1],
              scheme |-> "http"]

selectAppContainer(listing, appName) ==
    LET Keep(c) == appContainerFilter(c, appName)
        appContainers == SelectSeq(listing, Keep)
        HasPorts(c) == Len(getOpenPorts(c)) > 0
        containersWithPorts == SelectSeq(appContainers, HasPorts)
        Has443(c) == hasOpenPort(c, 443)
        Has80(c) == hasOpenPort(c, 80)
        httpsContainer == FirstIndex(containersWithPorts, Has443)
        httpContainer == FirstIndex(containersWithPorts, Has80)
    IN  IF Len(appContainers) = 0 THEN NoTarget
        ELSE IF Len(containersWithPorts) = 0 THEN NoTarget
        ELSE IF httpsContainer # 0
             THEN [container |-> containersWithPorts[httpsContainer],
                   port |-> 443, scheme |-> "https"]
        ELSE IF httpContainer # 0
             THEN [container |-> containersWithPorts[httpContainer],
                   port |-> 80, scheme |-> "http"]
        ELSE [container |-> containersWithPorts[1],
              port |-> getOpenPorts(containersWithPorts[1])[1],
              scheme |-> "http"]

\* process.env[`APP_OVERRIDE_${appName.toUpperCase()}`]
AppOverride(e, appName) ==
    LET key == ToUpperCase(appName)
    IN  IF key \in DOMAIN e THEN e[key] ELSE Undefined

\* the name test of the override filter
overrideNameMatches(container, appName, containerName) ==
    \E k \in 1..Len(container.Names) :
        StripOrdinal(StripLeadingSlash(container.Names[k]))
            = IxPrefix \o appName \o <<"-">> \o containerName

overrideSchemeAlt443(port) == IF port \in {443, 8443} THEN "https" ELSE "http"

overrideScheme(port) == IF port = 443 THEN "https" ELSE "http"

overrideMatchesInvalidOnlyNone(n) == n = 0

\* matches.length != 1
overrideMatchesInvalid(n) == n # 1

\* proxyApp up to its call of createProxyHost: "return" (nothing to proxy),
\* "error" (thrown and caught by proxyApp's own catch) or "target"
proxyAppTarget(listing, e, appName) ==
    LET appOverride == AppOverride(e, appName)
    IN  IF appOverride # Undefined /\ appOverride # <<>>
        THEN LET parts == Split(appOverride)
                 containerName == parts[1]
                 portStr == IF Len(parts) >= 2 THEN parts[2] ELSE Undefined
                 port == ParseInt(portStr)
                 Match(c) == /\ appContainerFilter(c, appName)
                             /\ overrideNameMatches(c, appName, containerName)
                 matches == SelectSeq(listing, Match)
             IN  IF containerName = <<>> \/ port = NaN
                 THEN [kind |-> "error", error |-> "InvalidOverrideFormat",
                       path |-> "override"]
                 ELSE IF overrideMatchesInvalid(Len(matches))
                 THEN [kind |-> "error", error |-> "InvalidMatchCount",
                       path |-> "override", matches |-> Len(matches)]
                 ELSE [kind |-> "target", path |-> "override",
                       container |-> matches[1], port |-> port,
                       scheme |-> overrideScheme(port)]
        ELSE LET selectedInfo == selectAppContainer(listing, appName)
             IN  IF selectedInfo = NoTarget
                 THEN [kind |-> "return", path |-> "auto"]
                 ELSE [kind |-> "target", path |-> "auto",
                       container |-> selectedInfo.container,
                       port |-> selectedInfo.port,
                       scheme |-> selectedInfo.scheme]

proxyAppOptionsAppHost(target, appName, domain) ==
    [domainName |-> appName \o <<".">> \o domain,
     scheme |-> target.scheme,
     forwardHost |-> appName \o <<".">> \o target.container.Labels.project
                        \o ClusterSuffix,
     port |-> target.port]

\* the options proxyApp hands to npmServer.createProxyHost
proxyAppOptions(target, appName, domain) ==
    [domainName |-> appName \o <<".">> \o domain,
     scheme |-> target.scheme,
     forwardHost |-> getDnsName(target.container),
     port |-> target.port]

-----------------------------------------------------------------------------
(* The inputs of the target-selection runs *)

AppA == <<"a">>
AppB == <<"b">>
SelApps == {AppA, AppB}

ProjIxA == IxPrefix \o AppA
ProjIxB == IxPrefix \o AppB
ModeBridge == <<"b", "r", "i", "d", "g", "e">>
ModeHosts == ModeHost \o <<"s">>             \* a user network called "hosts"
ModeContainerX == ModeContainerPrefix \o <<"x">>
ModeServiceX == ModeServicePrefix \o <<"x">>

NameW1 == <<"/">> \o ProjIxA \o <<"-", "w", "-", "1">>
NameW12 == <<"/">> \o ProjIxA \o <<"-", "w", "-", "1", "2">>
NameD1 == <<"/">> \o ProjIxA \o <<"-", "d", "-", "1">>
NameOf == [w1 |-> NameW1, w12 |-> NameW12, d1 |-> NameD1]
ServiceOf == [w1 |-> <<"w">>, w12 |-> <<"w">>, d1 |-> <<"d">>]

DomainName == <<"e", ".", "x">>             \* process.env.DOMAIN_NAME

Container(project, mode, ports, nm) ==
    [Id |-> 0,
     Names |-> <<NameOf[nm]>>,
     Labels |-> [project |-> project, service |-> ServiceOf[nm]],
     HostConfig |-> [NetworkMode |-> mode],
     Ports |-> ports]

\* containers of application a that pass the namespace and network filters
SelEligible ==
    {Container(ProjIxA, ModeBridge, p, n) :
        p \in {<<>>, <<443>>, <<80>>, <<8080>>, <<8080, 80>>, <<80, 443>>},
        n \in {"w1", "w12", "d1"}}
    \cup {Container(ProjIxA, ModeHosts, <<443>>, n) : n \in {"w1", "w12", "d1"}}

\* containers the filters must drop: another project, or a prohibited mode
SelOther ==
    {Container(pm[1], pm[2], <<443>>, n) :
        pm \in {<<AppA, ModeBridge>>, <<ProjIxB, ModeBridge>>,
                <<ProjIxA, ModeHost>>, <<ProjIxA, ModeNone>>,
                <<ProjIxA, ModeContainerX>>, <<ProjIxA, ModeServiceX>>},
        n \in {"w1", "d1"}}

SelPool == SelEligible \cup SelOther

\* values of APP_OVERRIDE_A: unset, empty, well-formed and malformed ones
SelOverrides ==
    {Undefined, <<>>,
     <<"w", ":", "8", "0", "8", "0">>, <<"w", ":", "4", "4", "3">>,
     <<"d", ":", "8", "0">>, <<"d", ":", "8", "4", "4", "3">>,
     <<"x", ":", "4", "4", "3">>,
     <<":", "8", "0">>, <<"w">>}

\* docker gives every container its own names
DistinctNames(listing) ==
    \A i, j \in 1..Len(listing) :
        i # j => listing[i].Names # listing[j].Names

Null == [null |-> TRUE]

\* the token manager and the orchestrator are not running in these runs
NpmQuiet ==
    /\ config = [auth |-> "credentials", interval |-> Undefined,
                 blacklist |-> Undefined, events |-> 1, horizon |-> MaxNow,
                 keep |-> FALSE]
    /\ tokenData = Null
    /\ credentials = Null
    /\ now = 1
    /\ nextTok = 1
    /\ tasks = <<>>
    /\ timerOn = FALSE
    /\ listening = FALSE
    /\ exited = "running"
    /\ ev = [t |-> "none"]

SelInit ==
    /\ NpmQuiet
    /\ \E n \in 0..MaxContainers :
          \E f \in [1..n -> SelPool] :
             /\ docker = [i \in 1..n |-> [f[i] EXCEPT !.Id = i]]
             /\ DistinctNames(docker)
    /\ \E o \in SelOverrides : env = [k \in {<<"A">>} |-> o]
    /\ sel = [kind |-> "init"]

\* listApps: the application names of the ix containers, each once, in the
\* order of their first container
RECURSIVE listApps(_)
listApps(listing) ==
    IF listing = <<>> THEN <<>>
    ELSE LET front == listApps(SubSeq(listing, 1, Len(listing) - 1))
             c == listing[Len(listing)]
         IN  IF isIxAppContainer(c)
                /\ \A i \in 1..Len(front) : front[i] # getAppName(c)
             THEN Append(front, getAppName(c))
             ELSE front

\* one run of listApps(docker) and of proxyApp(docker, appName) up to the
\* call of createProxyHost
SelProxyApp(appName) ==
    /\ sel.kind = "init"
    /\ LET t == proxyAppTarget(docker, env, appName)
       IN  sel' = IF t.kind = "target"
                  THEN [t EXCEPT !.kind = "call"] @@
                       [app |-> appName, apps |-> listApps(docker),
                        options |-> proxyAppOptions(t, appName, DomainName)]
                  ELSE t @@ [app |-> appName, apps |-> listApps(docker)]
    /\ UNCHANGED <<docker, env>>
    /\ UNCHANGED npmVars

SelNext == \E appName \in SelApps : SelProxyApp(appName)

SpecSel == SelInit /\ [][SelNext]_vars

-----------------------------------------------------------------------------
(* Target selection: the claims, stated on the listing itself *)

SelRan == sel.kind # "init"

\* the network modes of the listings that leave a container routable
AllowedModes == {ModeBridge, ModeHosts}

\* the containers of the application a run is about, by position
EligibleAt(app) ==
    {i \in 1..Len(docker) :
        /\ docker[i].Labels.project = IxPrefix \o app
        /\ docker[i].HostConfig.NetworkMode \in AllowedModes}

RemainingAt(app) == {i \in EligibleAt(app) : docker[i].Ports # <<>>}

ExposingAt(app, p) ==
    {i \in RemainingAt(app) : \E k \in 1..Len(docker[i].Ports) :
                                  docker[i].Ports[k] = p}

MinOf(S) == CHOOSE i \in S : \A j \in S : i <= j

IsCall(i, scheme, port) ==
    /\ sel.kind = "call"
    /\ sel.container = docker[i]
    /\ sel.scheme = scheme /\ sel.options.scheme = scheme
    /\ sel.port = port /\ sel.options.port = port

\* C1: without an override the selector returns the first remaining
\* container exposing 443 (https), else the first exposing 80 (http), else
\* the first remaining container on its first port (http), and no target
\* exactly when no eligible container exposes a port.
C1_PortPriority ==
    (SelRan /\ sel.path = "auto") =>
        LET app == sel.app
        IN  IF ExposingAt(app, 443) # {}
            THEN IsCall(MinOf(ExposingAt(app, 443)), "https", 443)
            ELSE IF ExposingAt(app, 80) # {}
            THEN IsCall(MinOf(ExposingAt(app, 80)), "http", 80)
            ELSE IF RemainingAt(app) # {}
            THEN LET i == MinOf(RemainingAt(app))
                 IN  IsCall(i, "http", docker[i].Ports[1])
            ELSE sel.kind = "return"

\* an 80-only container precedes the 443 container, which is selected
C1_Witness ==
    /\ SelRan /\ sel.path = "auto" /\ sel.kind = "call"
    /\ Len(docker) = 2
    /\ EligibleAt(sel.app) = {1, 2}
    /\ docker[1].Ports = <<80>> /\ docker[2].Ports = <<443>>
    /\ sel.container.Id = 2 /\ sel.scheme = "https"

\* C2: a container in network mode none, host, container:* or service:* is
\* never the container of the target handed to createProxyHost, on the
\* automatic path or on the override path.
C2_ProhibitedNeverTarget ==
    sel.kind = "call" =>
        /\ sel.container.HostConfig.NetworkMode
              \notin {ModeNone, ModeHost, ModeContainerX, ModeServiceX}
        /\ \E i \in EligibleAt(sel.app) :
              /\ sel.container = docker[i]
              /\ sel.options.forwardHost =
                    docker[i].Labels.service \o <<".">>
                        \o docker[i].Labels.project \o ClusterSuffix

\* a host-mode container exposing 443 is first in the listing and is passed over
C2_Witness ==
    /\ sel.kind = "call" /\ sel.app = AppA
    /\ Len(docker) = 2
    /\ docker[1].HostConfig.NetworkMode = ModeHost
    /\ docker[1].Labels.project = ProjIxA
    /\ docker[1].Ports = <<443>>
    /\ sel.container.Id = 2

\* what each well-formed override value of the listings asks for
OverrideAsks ==
    LET o == env[<<"A">>]
    IN  CASE o = <<"w", ":", "8", "0", "8", "0">> ->
                [ok |-> TRUE, suffix |-> "w", port |-> 8080]
          [] o = <<"w", ":", "4", "4", "3">> ->
                [ok |-> TRUE, suffix |-> "w", port |-> 443]
          [] o = <<"d", ":", "8", "0">> ->
                [ok |-> TRUE, suffix |-> "d", port |-> 80]
          [] o = <<"d", ":", "8", "4", "4", "3">> ->
                [ok |-> TRUE, suffix |-> "d", port |-> 8443]
          [] o = <<"x", ":", "4", "4", "3">> ->
                [ok |-> TRUE, suffix |-> "x", port |-> 443]
          [] OTHER -> [ok |-> FALSE]

\* the container names of the listings, normalized, by suffix
NamesOfSuffix(sfx) ==
    CASE sfx = "w" -> {NameW1, NameW12}
      [] sfx = "d" -> {NameD1}
      [] OTHER -> {}

OverrideMatchesAt(app) ==
    {i \in EligibleAt(app) :
        /\ app = AppA
        /\ \E k \in 1..Len(docker[i].Names) :
              docker[i].Names[k] \in NamesOfSuffix(OverrideAsks.suffix)}

\* C3: with an override, exactly one eligible container with a matching
\* normalized name is the target whatever ports it exposes; zero or several
\* matches end the run with an error and createProxyHost is not called.
C3_OverrideExactlyOne ==
    (SelRan /\ sel.app = AppA /\ OverrideAsks.ok) =>
        LET M == OverrideMatchesAt(sel.app)
        IN  IF Cardinality(M) = 1
            THEN /\ sel.kind = "call"
                 /\ sel.path = "override"
                 /\ sel.container = docker[MinOf(M)]
            ELSE /\ sel.kind = "error"
                 /\ sel.error = "InvalidMatchCount"

\* the single match exposes no port while a sibling exposes 443
C3_Witness ==
    /\ sel.kind = "call" /\ sel.path = "override"
    /\ Len(docker) = 2
    /\ EligibleAt(AppA) = {1, 2}
    /\ docker[1].Ports = <<443>>
    /\ docker[2].Ports = <<>>
    /\ sel.container.Id = 2

\* two replicas match the override: an error and no call
C3_WitnessSeveral ==
    /\ sel.kind = "error" /\ OverrideAsks.ok
    /\ Cardinality(OverrideMatchesAt(AppA)) = 2

\* C4: on the override path the target's port is the override port and the
\* scheme is https exactly when that port is 443, whatever the matched
\* container exposes.
C4_OverridePortScheme ==
    (sel.kind = "call" /\ sel.path = "override") =>
        /\ OverrideAsks.ok
        /\ sel.port = OverrideAsks.port
        /\ sel.options.port = OverrideAsks.port
        /\ sel.options.scheme = sel.scheme
        /\ sel.scheme \in {"http", "https"}
        /\ (sel.scheme = "https") <=> (OverrideAsks.port = 443)

\* override port 8443 on a container that exposes 443: http, port 8443
C4_Witness ==
    /\ sel.kind = "call" /\ sel.path = "override"
    /\ OverrideAsks.ok /\ OverrideAsks.port = 8443
    /\ sel.container.Ports = <<443>>
    /\ sel.scheme = "http" /\ sel.port = 8443

-----------------------------------------------------------------------------
(* npm.ts: NPMServer, the token slot and the calls to the proxy manager *)

NoStatusCode == 0       \* an error constructed without its statusCode

MsPerMinute == 60 * 1000
BufferTime == 5 * 60 * 1000                \* bufferTime, in milliseconds

\* Date.getTime() of a time counted in minutes
GetTime(minutes) == minutes * MsPerMinute

isTokenValidInclusive(td, n) ==
    IF td = Null THEN FALSE
    ELSE GetTime(td.expires) >= GetTime(n) + BufferTime

isTokenValid(td, n) ==
    IF td = Null THEN FALSE
    ELSE GetTime(td.expires) > GetTime(n) + BufferTime

initializeNPMServerAuthTokenFirst(auth) ==
    IF auth \in {"token", "both"} THEN "token"
    ELSE IF auth = "credentials" THEN "credentials"
    ELSE "throw"

\* initializeNPMServer: what is handed to NPMServer.create, by which of
\* NPM_MAIL and NPM_PASSWORD ("credentials"), NPM_TOKEN ("token"), all of
\* them ("both") or none of them ("none") are set
initializeNPMServerAuth(auth) ==
    IF auth \in {"credentials", "both"} THEN "credentials"
    ELSE IF auth = "token" THEN "token"
    ELSE "throw"

\* the constructor: the credential pair, or the token with new Date(0)
constructorCredentials(auth) ==
    IF auth = "credentials" THEN [identity |-> "mail", secret |-> "password"]
    ELSE Null

constructorTokenData(auth) ==
    IF auth = "credentials" THEN Null
    ELSE [token |-> 0, expires |-> 0]

\* axios resolves a response whose status validateStatus accepts (2xx) and
\* rejects with error.response for any other
ValidateStatus(status) == status >= 200 /\ status < 300

HttpAnswer(status) ==
    [kind |-> IF ValidateStatus(status) THEN "response" ELSE "error_response",
     status |-> status]

NoResponse == [kind |-> "no_response"]

\* what the proxy manager can answer to GET/POST /api/tokens, apart from a
\* fresh token
TokenFailures == {HttpAnswer(204), HttpAnswer(401), NoResponse}

\* what it can answer to POST /api/nginx/proxy-hosts
UpsertAnswers ==
    {HttpAnswer(st) : st \in {200, 201, 204, 400, 500}} \cup {NoResponse}

\* a fresh token: { token, expires }
FreshToken == [token |-> nextTok, expires |-> now + TokenTTL]

NPMTokenError(statusCode) ==
    [name |-> "NPMTokenError", statusCode |-> statusCode]
NPMProxyHostError(statusCode) ==
    [name |-> "NPMProxyHostError", statusCode |-> statusCode]
NPMNetworkError == [name |-> "NPMNetworkError"]

\* the error createToken / refreshExistingToken throw for a failed call.  A
\* resolved response that is not 200/201 throws inside the try block, is
\* caught by the same function's catch and rethrown from its message alone.
tokenCallError(answer) ==
    IF answer.kind = "response" THEN NPMTokenError(NoStatusCode)
    ELSE IF answer.kind = "error_response" THEN NPMTokenError(answer.status)
    ELSE NPMNetworkError

createProxyHostResult400Fails(answer) ==
    IF answer.kind = "response"
    THEN IF answer.status \in {200, 201}
         THEN [kind |-> "ok"]
         ELSE [kind |-> "error", error |-> NPMProxyHostError(NoStatusCode)]
    ELSE IF answer.kind = "error_response"
    THEN [kind |-> "error", error |-> NPMProxyHostError(answer.status)]
    ELSE [kind |-> "error", error |-> NPMNetworkError]

createProxyHostResultRejected400Fails(answer) ==
    IF answer.kind = "response"
    THEN IF answer.status \in {200, 201, 400} THEN [kind |-> "ok"]
         ELSE [kind |-> "error", error |-> NPMProxyHostError(NoStatusCode)]
    ELSE IF answer.kind = "error_response"
    THEN [kind |-> "error", error |-> NPMProxyHostError(answer.status)]
    ELSE [kind |-> "error", error |-> NPMNetworkError]

\* createProxyHost after the upsert call has been answered
createProxyHostResult(answer) ==
    IF answer.kind = "response"
    THEN IF answer.status \in {200, 201} THEN [kind |-> "ok"]
         ELSE IF answer.status = 400 THEN [kind |-> "ok"]
         ELSE \* thrown with the status inside try, rethrown by the catch
              [kind |-> "error", error |-> NPMProxyHostError(NoStatusCode)]
    ELSE IF answer.kind = "error_response"
    THEN IF answer.status = 400 THEN [kind |-> "ok"]
         ELSE [kind |-> "error", error |-> NPMProxyHostError(answer.status)]
    ELSE [kind |-> "error", error |-> NPMNetworkError]

None == [kind |-> "none"]

refreshFallsBackNever(creds) == FALSE

\* refreshToken: if (this.credentials) after a failed refresh-existing call
refreshFallsBack(creds) == creds # Null

refreshTokenStartCreateFirst(td, creds) ==
    IF creds # Null
    THEN [pc |-> "ct_wait", req |-> [kind |-> "create"], ret |-> None]
    ELSE IF td # Null
    THEN [pc |-> "rx_wait", req |-> [kind |-> "refresh", bearer |-> td.token],
          ret |-> None]
    ELSE [pc |-> "thrown", req |-> None,
          ret |-> [kind |-> "error", error |-> NPMTokenError(NoStatusCode)]]

\* refreshToken up to its first request: refresh-existing when a token is
\* held, else create-token when credentials are held, else it throws
refreshTokenStart(td, creds) ==
    IF td # Null
    THEN [pc |-> "rx_wait", req |-> [kind |-> "refresh", bearer |-> td.token],
          ret |-> None]
    ELSE IF creds # Null
    THEN [pc |-> "ct_wait", req |-> [kind |-> "create"], ret |-> None]
    ELSE [pc |-> "thrown", req |-> None,
          ret |-> [kind |-> "error", error |-> NPMTokenError(NoStatusCode)]]

refreshTokenFallbackSwallows(creds) ==
    IF refreshFallsBack(creds)
    THEN [pc |-> "ct_fb_wait", req |-> [kind |-> "create"], ret |-> None]
    ELSE [pc |-> "thrown", req |-> None,
          ret |-> [kind |-> "ok", via |-> "kept", data |-> Null]]

\* refreshToken after refreshExistingToken threw
refreshTokenFallback(creds) ==
    IF refreshFallsBack(creds)
    THEN [pc |-> "ct_fb_wait", req |-> [kind |-> "create"], ret |-> None]
    ELSE [pc |-> "thrown", req |-> None,
          ret |-> [kind |-> "error", error |-> NPMTokenError(NoStatusCode)]]

refreshTokenThrownCaught(caught) == caught

\* refreshToken: the error of its last line, thrown after the catch dropped
\* the error of refreshExistingToken
refreshTokenThrown(caught) == NPMTokenError(NoStatusCode)

\* the error refreshToken caught, as the runs that keep it record it
caughtError(answer) ==
    IF config.keep THEN tokenCallError(answer) ELSE None

slotAfterFailedRefreshCleared(td) == Null

slotAfterFailedRefreshDropsStale(td) ==
    IF td # Null /\ td.expires <= now THEN Null ELSE td

\* a failed refreshToken assigns nothing to this.tokenData
slotAfterFailedRefresh(td) == td

slotAfterRefreshKeepsExpiry(td, data) ==
    IF td = Null THEN [token |-> data.token, expires |-> data.expires]
    ELSE [token |-> data.token, expires |-> td.expires]

slotAfterRefreshFirstWins(td, data) ==
    IF td # Null /\ td.expires >= data.expires THEN td
    ELSE [token |-> data.token, expires |-> data.expires]

\* a successful refreshToken: this.tokenData = { token: <response>.token,
\* expires: new Date(<response>.expires) }, one assignment of a new object
slotAfterRefresh(td, data) ==
    [token |-> data.token, expires |-> data.expires]

ensureNeedsRefreshNever(td, n) == FALSE

\* ensureValidToken: if (!this.isTokenValid())
ensureNeedsRefresh(td, n) == ~isTokenValid(td, n)

upsertBearerStale(before, current) == before.token

\* createProxyHost: Authorization: `Bearer ${this.tokenData!.token}`, read
\* when the request is built
upsertBearer(before, current) == current.token

upsertRequest(before, current, options) ==
    [kind |-> "upsert", bearer |-> upsertBearer(before, current),
     options |-> options]

-----------------------------------------------------------------------------
(* index.ts: main(), the refresh timer, the sweep and the event handler *)

\* the container.start handlers that can be running at once
EventTasks == {"e1", "e2"}
TaskIds == {"main", "timer"} \cup EventTasks

\* the containers running while the orchestrator runs
NameB1 == <<"/">> \o ProjIxB \o <<"-", "w", "-", "1">>
MainListing ==
    << [Id |-> 1, Names |-> <<NameW1>>,
        Labels |-> [project |-> ProjIxA, service |-> <<"w">>],
        HostConfig |-> [NetworkMode |-> ModeBridge], Ports |-> <<80>>],
       [Id |-> 2, Names |-> <<NameD1>>,
        Labels |-> [project |-> ProjIxA, service |-> <<"d">>],
        HostConfig |-> [NetworkMode |-> ModeBridge], Ports |-> <<443>>],
       [Id |-> 3, Names |-> <<NameB1>>,
        Labels |-> [project |-> ProjIxB, service |-> <<"w">>],
        HostConfig |-> [NetworkMode |-> ModeBridge], Ports |-> <<8080>>],
       [Id |-> 4, Names |-> <<<<"/", "x">>>>,
        Labels |-> [project |-> <<"x">>, service |-> <<"x">>],
        HostConfig |-> [NetworkMode |-> ModeBridge], Ports |-> <<80>>] >>

\* values of NPM_TOKEN_REFRESH_INTERVAL and of APP_BLACKLIST
Interval60 == <<"6", "0">>
Interval0 == <<"0">>
IntervalNeg == <<"-", "5">>
BlacklistB == <<" ", "b", ",">>

blacklistOfUntrimmed(s) ==
    LET parts == SplitOn(IF s = Undefined THEN <<>> ELSE s, ",")
    IN  {parts[i] : i \in 1..Len(parts)} \ {<<>>}

\* (process.env.APP_BLACKLIST || "").split(",").map(trim).filter(Boolean)
blacklistOf(s) ==
    LET parts == SplitOn(IF s = Undefined THEN <<>> ELSE s, ",")
    IN  {Trim(parts[i]) : i \in 1..Len(parts)} \ {<<>>}

BLACKLIST == blacklistOf(config.blacklist)

\* called: the applications proxyApp has been called for by the sweep
IdleTask == [pc |-> "idle", ctx |-> "none", app |-> <<>>, opts |-> None,
             apps |-> <<>>, k |-> 0, cid |-> 0, called |-> <<>>,
             rx |-> None]

\* app: the application whose pass the step belongs to; first: the error
\* refreshToken caught from refreshExistingToken before the call of this step
Quiet(t, act) ==
    [t |-> t, act |-> act, ctx |-> "none", valid |-> "na", plan |-> "none",
     req |-> None, answer |-> None, ret |-> None, cph |-> None,
     first |-> None,
     prev |-> tokenData,
     app |-> IF t \in TaskIds THEN tasks[t].app ELSE <<>>,
     cid |-> IF t \in TaskIds THEN tasks[t].cid ELSE 0]

OverrideNoMatch == <<"x", ":", "4", "4", "3">>
OverrideNoPort == <<"w">>
OverrideD8443 == <<"d", ":", "8", "4", "4", "3">>

\* the configurations the orchestrator is started with
Scenario(auth, interval, blacklist, override) ==
    [auth |-> auth, interval |-> interval, blacklist |-> blacklist,
     override |-> override]

Scenarios ==
    {Scenario("credentials", Undefined, Undefined, Undefined),
     Scenario("token", Interval60, Undefined, Undefined),
     Scenario("both", Interval60, BlacklistB, Undefined),
     Scenario("none", Interval60, Undefined, Undefined),
     Scenario("credentials", Interval0, Undefined, OverrideD8443),
     Scenario("token", IntervalNeg, BlacklistB, Undefined),
     Scenario("credentials", Interval60, Undefined, OverrideNoMatch),
     Scenario("credentials", Interval0, Undefined, OverrideNoPort)}

\* the process starts in configuration sc; events: how many container.start
\* events docker delivers close enough for their handlers to overlap;
\* horizon: the minute at which the clock of the run stops
\* keep: the runs record the error refreshToken caught from
\* refreshExistingToken (the code drops it, line 222)
StartWith(sc, events, horizon, keep) ==
    /\ docker = MainListing
    /\ sel = [kind |-> "init"]
    /\ env = [k \in {<<"A">>} |-> sc.override]
    /\ config = [auth |-> sc.auth, interval |-> sc.interval,
                 blacklist |-> sc.blacklist, events |-> events,
                 horizon |-> horizon, keep |-> keep]
    /\ tokenData = Null
    /\ credentials = Null
    /\ now = 1
    /\ nextTok = 1
    /\ tasks = [t \in TaskIds |->
                  IF t = "main" THEN [IdleTask EXCEPT !.pc = "start"]
                  ELSE IdleTask]
    /\ timerOn = FALSE
    /\ listening = FALSE
    /\ exited = "running"
    /\ ev = [t |-> "none", act |-> "init", ctx |-> "none", valid |-> "na",
             plan |-> "none", req |-> None, answer |-> None, ret |-> None,
             cph |-> None, first |-> None, prev |-> Null, app |-> <<>>,
             cid |-> 0]

Start(sc, events, horizon) == StartWith(sc, events, horizon, FALSE)

Init == \E sc \in Scenarios : Start(sc, 1, MaxNow)

Running == exited = "running"

\* where a finished proxyApp leaves its task: the sweep goes on to the next
\* application, an event handler ends
EndPass(t, r) ==
    IF t = "main"
    THEN [r EXCEPT !.pc = "sweep", !.k = r.k + 1, !.ctx = "none",
                   !.app = <<>>, !.opts = None]
    ELSE IdleTask

\* parseInt(process.env.NPM_TOKEN_REFRESH_INTERVAL || "60")
refreshIntervalMinutes(interval) ==
    ParseIntSigned(IF interval = Undefined \/ interval = <<>>
                   THEN Interval60 ELSE interval)

startTokenRefreshZeroArms(interval) ==
    LET m == refreshIntervalMinutes(interval)
    IN  m.nan \/ m.n >= 0

\* startTokenRefresh: the timer is created unless refreshIntervalMinutes <= 0
\* (NaN <= 0 is false)
startTokenRefresh(interval) ==
    LET m == refreshIntervalMinutes(interval)
    IN  ~(~m.nan /\ m.n <= 0)

mainAfterInitGoesOn(ret) == "listApps"

\* main(): after initializeNPMServer the sweep is prepared; an error thrown
\* by it reaches the catch of main, which calls process.exit(1)
mainAfterInit(ret) == IF ret.kind = "ok" THEN "listApps" ELSE "exit"

proxyAppCatchRetries(t, r) == [r EXCEPT !.pc = "pa_list", !.ctx = "none"]

proxyAppCatchRethrows(t, r) ==
    IF t = "main" THEN [r EXCEPT !.pc = "exit", !.ctx = "none"]
    ELSE IdleTask

\* proxyApp: catch (error) { logger.error(...); return } ends the pass as a
\* normal return does
proxyAppCatch(t, r) == EndPass(t, r)

\* what follows the end of a refreshToken call (ret) in its caller:
\*   boot:  NPMServer.create inside initializeNPMServer, then main goes on
\*          to startTokenRefresh and listApps, or exits with status 1
\*   timer: the setInterval callback logs either way
\*   proxy: ensureValidToken inside createProxyHost, then the upsert is
\*          sent, or the error passes through createProxyHost to the catch
\*          of proxyApp
timerCallbackCatchClears(on) == FALSE

\* the setInterval callback: catch (error) { logger.error(...) } leaves the
\* timer as it is
timerCallbackCatch(on) == on

AfterInit(r, ret) ==
    IF mainAfterInit(ret) = "listApps"
    THEN [task |-> [r EXCEPT !.pc = "listApps", !.ctx = "none"],
          req |-> None, cph |-> None, exited |-> exited,
          timerOn |-> startTokenRefresh(config.interval)]
    ELSE [task |-> [r EXCEPT !.pc = "exit", !.ctx = "none"],
          req |-> None, cph |-> None, exited |-> "exit(1)",
          timerOn |-> timerOn]

AfterRefresh(t, ret, before, current) ==
    LET r == tasks[t]
    IN  CASE r.ctx = "boot" -> AfterInit(r, ret)
          [] r.ctx = "timer" ->
               [task |-> IdleTask, req |-> None, cph |-> None,
                exited |-> exited,
                timerOn |-> IF ret.kind = "ok" THEN timerOn
                            ELSE timerCallbackCatch(timerOn)]
          [] r.ctx = "proxy" ->
               IF ret.kind = "ok"
               THEN [task |-> [r EXCEPT !.pc = "up_wait", !.ctx = "none"],
                     req |-> upsertRequest(before, current, r.opts),
                     cph |-> None, exited |-> exited, timerOn |-> timerOn]
               ELSE [task |-> proxyAppCatch(t, r), req |-> None,
                     cph |-> ret, exited |-> exited, timerOn |-> timerOn]

\* a refreshToken call of task t ends with ret; the slot becomes current
FinishRefresh(t, act, answer, ret, current) ==
    LET c == AfterRefresh(t, ret, tokenData, current)
    IN  /\ tokenData' = current
        /\ tasks' = [tasks EXCEPT ![t] = [c.task EXCEPT !.rx = None]]
        /\ exited' = c.exited
        /\ timerOn' = c.timerOn
        /\ ev' = [Quiet(t, act) EXCEPT !.ctx = tasks[t].ctx,
                                       !.first = tasks[t].rx,
                                       !.answer = answer, !.ret = ret,
                                       !.req = c.req, !.cph = c.cph]

\* main(): initializeNPMServer constructs the NPMServer and NPMServer.create
\* calls refreshToken
Boot ==
    /\ Running
    /\ tasks["main"].pc = "start"
    /\ LET auth == initializeNPMServerAuth(config.auth)
       IN  IF auth = "throw"
           THEN LET ret == [kind |-> "error", error |-> [name |-> "Error"]]
                    c == AfterInit(tasks["main"], ret)
                IN  /\ tasks' = [tasks EXCEPT !["main"] = c.task]
                    /\ exited' = c.exited
                    /\ timerOn' = c.timerOn
                    /\ ev' = [Quiet("main", "boot") EXCEPT
                                 !.ctx = "boot", !.ret = ret]
                    /\ UNCHANGED <<tokenData, credentials>>
           ELSE LET creds == constructorCredentials(auth)
                    td == constructorTokenData(auth)
                    st == refreshTokenStart(td, creds)
                IN  /\ credentials' = creds
                    /\ tokenData' = td
                    /\ tasks' = [tasks EXCEPT !["main"].pc = st.pc,
                                              !["main"].ctx = "boot"]
                    /\ ev' = [Quiet("main", "boot") EXCEPT !.req = st.req]
                    /\ UNCHANGED <<timerOn, exited>>
    /\ UNCHANGED <<docker, env, sel, config, now, nextTok, listening>>

\* the setInterval callback: await npmServer.refreshToken()
TimerFire ==
    /\ Running
    /\ timerOn
    /\ tasks["timer"].pc = "idle"
    /\ LET st == refreshTokenStart(tokenData, credentials)
       IN  /\ tasks' = [tasks EXCEPT !["timer"].pc = st.pc,
                                     !["timer"].ctx = "timer"]
           /\ ev' = [Quiet("timer", "timer") EXCEPT !.req = st.req]
    /\ UNCHANGED <<docker, env, sel, config, tokenData, credentials, now,
                   nextTok, timerOn, listening, exited>>

\* refreshExistingToken: GET /api/tokens answered 200 with a fresh token
RefreshExistingOk(t) ==
    /\ Running
    /\ tasks[t].pc = "rx_wait"
    /\ nextTok <= MaxTok
    /\ FinishRefresh(t, "refresh_ok", HttpAnswer(200),
                     [kind |-> "ok", via |-> "refresh", data |-> FreshToken],
                     slotAfterRefresh(tokenData, FreshToken))
    /\ nextTok' = nextTok + 1
    /\ UNCHANGED <<docker, env, sel, config, credentials, now, listening>>

\* refreshExistingToken throws; refreshToken catches it and falls back to
\* createToken, or throws when no credentials are held
RefreshExistingFails(t) ==
    /\ Running
    /\ tasks[t].pc = "rx_wait"
    /\ \E answer \in TokenFailures :
          LET fb == refreshTokenFallback(credentials)
          IN  IF fb.pc = "thrown"
              THEN FinishRefresh(t, "refresh_failed", answer,
                                 IF fb.ret.kind = "error"
                                 THEN [fb.ret EXCEPT !.error =
                                         refreshTokenThrown(
                                             tokenCallError(answer))]
                                 ELSE fb.ret,
                                 slotAfterFailedRefresh(tokenData))
              ELSE /\ tasks' = [tasks EXCEPT ![t].pc = fb.pc,
                                            ![t].rx = caughtError(answer)]
                   /\ ev' = [Quiet(t, "refresh_failed") EXCEPT
                                !.answer = answer, !.req = fb.req]
                   /\ UNCHANGED <<tokenData, exited, timerOn>>
    /\ UNCHANGED <<docker, env, sel, config, credentials, now, nextTok,
                   listening>>

\* createToken: POST /api/tokens answered 200 with a fresh token, which
\* refreshToken stores
CreateTokenOk(t) ==
    /\ Running
    /\ tasks[t].pc \in {"ct_wait", "ct_fb_wait"}
    /\ nextTok <= MaxTok
    /\ FinishRefresh(t, "create_ok", HttpAnswer(200),
                     [kind |-> "ok",
                      via |-> IF tasks[t].pc = "ct_fb_wait"
                              THEN "fallback" ELSE "create",
                      data |-> FreshToken],
                     slotAfterRefresh(tokenData, FreshToken))
    /\ nextTok' = nextTok + 1
    /\ UNCHANGED <<docker, env, sel, config, credentials, now, listening>>

\* createToken throws and refreshToken lets the error through
CreateTokenFails(t) ==
    /\ Running
    /\ tasks[t].pc \in {"ct_wait", "ct_fb_wait"}
    /\ \E answer \in TokenFailures :
          FinishRefresh(t, "create_failed", answer,
                        [kind |-> "error", error |-> tokenCallError(answer)],
                        slotAfterFailedRefresh(tokenData))
    /\ UNCHANGED <<docker, env, sel, config, credentials, now, nextTok,
                   listening>>

\* time passes
Tick ==
    /\ Running
    /\ now < config.horizon
    /\ now' = now + 1
    /\ ev' = Quiet("clock", "tick")
    /\ UNCHANGED <<docker, env, sel, config, tokenData, credentials, nextTok,
                   tasks, timerOn, listening, exited>>

\* main(): listApps answers and the sweep begins
ListApps ==
    /\ Running
    /\ tasks["main"].pc = "listApps"
    /\ tasks' = [tasks EXCEPT !["main"].pc = "sweep",
                              !["main"].apps = listApps(docker),
                              !["main"].k = 1]
    /\ ev' = Quiet("main", "listApps")
    /\ UNCHANGED <<docker, env, sel, config, tokenData, credentials, now,
                   nextTok, timerOn, listening, exited>>

\* proxyApp up to its first await: an override that cannot be parsed throws
\* before any container is listed
proxyAppStart(t, r, appName) ==
    LET early == proxyAppTarget(<<>>, env, appName)
    IN  IF early.kind = "error" /\ early.error = "InvalidOverrideFormat"
        THEN [task |-> proxyAppCatch(t, r), plan |-> "error"]
        ELSE [task |-> [r EXCEPT !.pc = "pa_list", !.app = appName],
              plan |-> "none"]

sweepDoneBeforeLast(k, apps) == k >= Len(apps)

\* main(): the for ... of loop has gone through every application
sweepDone(k, apps) == k > Len(apps)

\* main(): the for loop over the applications, then the registration of the
\* container.start handler and of the SIGINT and SIGTERM handlers
SweepStep ==
    /\ Running
    /\ tasks["main"].pc = "sweep"
    /\ LET r == tasks["main"]
       IN  IF sweepDone(r.k, r.apps)
           THEN /\ tasks' = [tasks EXCEPT !["main"].pc = "steady"]
                /\ listening' = TRUE
                /\ ev' = Quiet("main", "subscribe")
           ELSE IF r.apps[r.k] \in BLACKLIST
           THEN /\ tasks' = [tasks EXCEPT !["main"].k = r.k + 1]
                /\ ev' = [Quiet("main", "blacklisted") EXCEPT
                             !.app = r.apps[r.k]]
                /\ UNCHANGED listening
           ELSE LET rc == [r EXCEPT !.called = Append(r.called, r.apps[r.k])]
                    st == proxyAppStart("main", rc, r.apps[r.k])
                IN  /\ tasks' = [tasks EXCEPT !["main"] = st.task]
                    /\ ev' = [Quiet("main", "proxyApp") EXCEPT
                                 !.plan = st.plan, !.app = r.apps[r.k]]
                    /\ UNCHANGED listening
    /\ UNCHANGED <<docker, env, sel, config, tokenData, credentials, now,
                   nextTok, timerOn, exited>>

\* createProxyHost up to its first request: ensureValidToken, then either
\* the upsert or the first request of refreshToken
createProxyHostStart(t, r, options) ==
    IF ensureNeedsRefresh(tokenData, now)
    THEN LET st == refreshTokenStart(tokenData, credentials)
         IN  IF st.pc = "thrown"
             THEN [task |-> proxyAppCatch(t, r), req |-> None, cph |-> st.ret]
             ELSE [task |-> [r EXCEPT !.pc = st.pc, !.ctx = "proxy",
                                      !.opts = options],
                   req |-> st.req, cph |-> None]
    ELSE [task |-> [r EXCEPT !.pc = "up_wait", !.opts = options],
          req |-> upsertRequest(tokenData, tokenData, options),
          cph |-> None]

\* proxyApp: the listing answers; the target is chosen and createProxyHost
\* is called, or the pass ends (no target, or an override error)
PaList(t) ==
    /\ Running
    /\ tasks[t].pc = "pa_list"
    /\ LET r == tasks[t]
           plan == proxyAppTarget(docker, env, r.app)
       IN  IF plan.kind = "target"
           THEN LET c == createProxyHostStart(t, r,
                            proxyAppOptions(plan, r.app, DomainName))
                IN  /\ tasks' = [tasks EXCEPT ![t] = c.task]
                    /\ ev' = [Quiet(t, "createProxyHost") EXCEPT
                                 !.valid = IF isTokenValid(tokenData, now)
                                           THEN "yes" ELSE "no",
                                 !.plan = "target",
                                 !.req = c.req, !.cph = c.cph]
           ELSE /\ tasks' = [tasks EXCEPT ![t] =
                                 IF plan.kind = "error"
                                 THEN proxyAppCatch(t, r) ELSE EndPass(t, r)]
                /\ ev' = [Quiet(t, "proxyApp") EXCEPT !.plan = plan.kind]
    /\ UNCHANGED <<docker, env, sel, config, tokenData, credentials, now,
                   nextTok, timerOn, listening, exited>>

\* createProxyHost: the upsert is answered; an error goes to the catch of
\* proxyApp, which logs it
UpsertAnswer(t) ==
    /\ Running
    /\ tasks[t].pc = "up_wait"
    /\ \E answer \in UpsertAnswers :
          LET res == createProxyHostResult(answer)
          IN  /\ tasks' = [tasks EXCEPT ![t] =
                               IF res.kind = "error"
                               THEN proxyAppCatch(t, tasks[t])
                               ELSE EndPass(t, tasks[t])]
              /\ ev' = [Quiet(t, "upsert_answer") EXCEPT
                           !.answer = answer, !.cph = res]
    /\ UNCHANGED <<docker, env, sel, config, tokenData, credentials, now,
                   nextTok, timerOn, listening, exited>>

\* a container.start event: the handler asks docker for that container
EventArrives(t) ==
    /\ Running
    /\ listening
    /\ tasks[t].pc = "idle"
    /\ \/ t = "e1"
       \/ config.events >= 2 /\ tasks["e1"].pc # "idle"
    /\ \E cid \in 0..Len(docker) :
          tasks' = [tasks EXCEPT ![t].pc = "ev_fetch", ![t].cid = cid]
    /\ ev' = Quiet(t, "container.start")
    /\ UNCHANGED <<docker, env, sel, config, tokenData, credentials, now,
                   nextTok, timerOn, listening, exited>>

eventDiscardNoIxTest(found) ==
    IF found = <<>> THEN "not_found"
    ELSE IF getAppName(found[1]) \in BLACKLIST THEN "blacklisted"
    ELSE "settle"

\* the container.start handler after docker.listContainers({filters: id})
\* answered with the sequence found: which early return is taken, or
\* "settle" when the handler goes on to the settle delay
eventDiscard(found) ==
    IF found = <<>> THEN "not_found"
    ELSE IF ~isIxAppContainer(found[1]) THEN "not_ix"
    ELSE IF getAppName(found[1]) \in BLACKLIST THEN "blacklisted"
    ELSE "settle"

\* the handler's early returns: container gone (cid 0), not an ix
\* container, blacklisted; otherwise the settle delay starts
EventFetched(t) ==
    /\ Running
    /\ tasks[t].pc = "ev_fetch"
    /\ LET r == tasks[t]
           found == IF r.cid = 0 THEN <<>> ELSE <<docker[r.cid]>>
           d == eventDiscard(found)
       IN  IF d # "settle"
           THEN /\ tasks' = [tasks EXCEPT ![t] = IdleTask]
                /\ ev' = Quiet(t, d)
           ELSE /\ tasks' = [tasks EXCEPT
                               ![t].pc = "ev_settle",
                               ![t].app = getAppName(docker[r.cid])]
                /\ ev' = Quiet(t, "settle")
    /\ UNCHANGED <<docker, env, sel, config, tokenData, credentials, now,
                   nextTok, timerOn, listening, exited>>

\* the settle delay has elapsed: proxyApp(docker, appName)
EventSettled(t) ==
    /\ Running
    /\ tasks[t].pc = "ev_settle"
    /\ LET st == proxyAppStart(t, tasks[t], tasks[t].app)
       IN  /\ tasks' = [tasks EXCEPT ![t] = st.task]
           /\ ev' = [Quiet(t, "proxyApp") EXCEPT !.plan = st.plan]
    /\ UNCHANGED <<docker, env, sel, config, tokenData, credentials, now,
                   nextTok, timerOn, listening, exited>>

stopTokenRefreshForgets(on) == on

\* stopTokenRefresh: clearInterval(refreshInterval) when the timer exists
stopTokenRefresh(on) == FALSE

\* SIGINT or SIGTERM arrives.  Once main() has registered its handlers (in
\* the step that registers the container.start handler) the handler stops
\* the timer and calls process.exit(0); before that the signal has its
\* default disposition and ends the process
Signal ==
    /\ Running
    /\ \E sig \in {"SIGINT", "SIGTERM"} :
          /\ ev' = Quiet("signal", sig)
          /\ IF listening
             THEN /\ timerOn' = stopTokenRefresh(timerOn)
                  /\ exited' = "exit(0)"
             ELSE /\ exited' = "killed"
                  /\ UNCHANGED timerOn
    /\ UNCHANGED <<docker, env, sel, config, tokenData, credentials, now,
                   nextTok, tasks, listening>>

Next ==
    \/ Boot
    \/ Signal
    \/ TimerFire
    \/ ListApps
    \/ SweepStep
    \/ Tick
    \/ \E t \in TaskIds : RefreshExistingOk(t)
    \/ \E t \in TaskIds : RefreshExistingFails(t)
    \/ \E t \in TaskIds : CreateTokenOk(t)
    \/ \E t \in TaskIds : CreateTokenFails(t)
    \/ \E t \in TaskIds : PaList(t)
    \/ \E t \in TaskIds : UpsertAnswer(t)
    \/ \E t \in EventTasks : EventArrives(t)
    \/ \E t \in EventTasks : EventFetched(t)
    \/ \E t \in EventTasks : EventSettled(t)

Spec == Init /\ [][Next]_vars

\* two container.start events whose handlers overlap
InitEv ==
    Start(Scenario("credentials", Interval60, BlacklistB, Undefined), 2,
          MaxNowEv)

SpecEv == InitEv /\ [][Next]_vars

\* the calls of the timer callback are answered
TimerAnswered ==
    \/ RefreshExistingOk("timer") \/ RefreshExistingFails("timer")
    \/ CreateTokenOk("timer") \/ CreateTokenFails("timer")

\* the proxy manager accepts a token call of the timer callback
TimerAccepted == RefreshExistingOk("timer") \/ CreateTokenOk("timer")

\* setInterval keeps calling the callback, every call is answered, and the
\* proxy manager does not refuse for ever
InitLive ==
    Start(Scenario("both", Interval60, BlacklistB, Undefined), 1, MaxNowEv)

\* runs of a bootstrap-token manager and of one that holds both, which
\* keep the error refreshToken caught
InitKeep ==
    \E sc \in {Scenario("token", Interval60, Undefined, Undefined),
                Scenario("both", Interval60, BlacklistB, Undefined)} :
        StartWith(sc, 1, MaxNowEv, TRUE)

SpecKeep == InitKeep /\ [][Next]_vars

SpecLive ==
    /\ InitLive /\ [][Next]_vars
    /\ WF_vars(TimerFire)
    /\ WF_vars(TimerAnswered)
    /\ SF_vars(TimerAccepted)

-----------------------------------------------------------------------------
(* The token manager and the proxy-host client: the claims *)

\* minutes the token in the slot still has
MinutesLeft == tokenData.expires - now

\* C5: isTokenValid reports valid exactly when a token is present and its
\* expiry is more than 5 minutes ahead; exactly 5 minutes, less, expired
\* and the empty slot are all invalid.
C5_TokenValidity ==
    /\ ev.act = "createProxyHost" =>
          (ev.valid = "yes" <=> (tokenData # Null /\ MinutesLeft > 5))
    /\ \A e \in 0..(MaxNow + TokenTTL) :
          isTokenValid([token |-> 1, expires |-> e], now) <=> (e - now > 5)
    /\ ~isTokenValid(Null, now)

\* the check runs on a token that expires in exactly 5 minutes
C5_Witness ==
    /\ ev.act = "createProxyHost"
    /\ tokenData # Null
    /\ MinutesLeft = 5
    /\ ev.valid = "no"

\* C6: when the refresh-existing call of a refreshToken fails and a
\* credential pair is held, the create-token call is issued; when that call
\* succeeds refreshToken returns, the slot holds the created token with the
\* expiry the server returned, and the token is valid.
C6_FallbackCreates ==
    /\ (ev.act = "refresh_failed" /\ credentials # Null) =>
          /\ ev.req.kind = "create"
          /\ ev.ret = None
          /\ tasks[ev.t].pc = "ct_fb_wait"
    /\ (ev.act = "create_ok" /\ ev.ret.via = "fallback") =>
          /\ ev.ret.kind = "ok"
          /\ tokenData # Null
          /\ tokenData.token = ev.ret.data.token
          /\ tokenData.expires = ev.ret.data.expires
          /\ tokenData.token = nextTok - 1
          /\ tokenData.expires = now + TokenTTL
          /\ MinutesLeft > 5

\* a fallback create-token succeeded and replaced the token that could not
\* be refreshed
C6_Witness ==
    /\ ev.act = "create_ok" /\ ev.ret.via = "fallback"
    /\ ev.prev # Null
    /\ ev.prev.token # tokenData.token

\* C7: createProxyHost returns normally for an upsert answered 200, 201 or
\* 400 (resolved or rejected with a response), throws a proxy-host error
\* for 500 and a network error when no response was received.
C7_UpsertOutcome ==
    /\ ev.act = "upsert_answer" =>
          /\ (ev.answer.kind # "no_response"
              /\ ev.answer.status \in {200, 201, 400}) => ev.cph.kind = "ok"
          /\ (ev.answer.kind # "no_response" /\ ev.answer.status = 500) =>
                /\ ev.cph.kind = "error"
                /\ ev.cph.error.name = "NPMProxyHostError"
          /\ ev.answer.kind = "no_response" =>
                /\ ev.cph.kind = "error"
                /\ ev.cph.error.name = "NPMNetworkError"
    /\ \A k \in {"response", "error_response"} :
          createProxyHostResult([kind |-> k, status |-> 400]).kind = "ok"

\* an upsert rejected with status 400 ends without an error
C7_Witness ==
    /\ ev.act = "upsert_answer"
    /\ ev.answer = [kind |-> "error_response", status |-> 400]
    /\ ev.cph.kind = "ok"

\* C8: every upsert answer whose status is not 200, 201 or 400, resolved or
\* rejected with a response, makes createProxyHost throw a proxy-host error
\* that carries that status code.
C8_ErrorCarriesStatus ==
    (/\ ev.act = "upsert_answer"
     /\ ev.answer.kind # "no_response"
     /\ ev.answer.status \notin {200, 201, 400}) =>
        /\ ev.cph.kind = "error"
        /\ ev.cph.error.name = "NPMProxyHostError"
        /\ ev.cph.error.statusCode = ev.answer.status

\* C9: inside createProxyHost the token check, and the refresh when the
\* token is not valid, are over before the upsert is sent; a failed refresh
\* sends no upsert and its error is what createProxyHost throws; the upsert
\* carries the token that is in the slot when it is sent.
C9_CheckBeforeUpsert ==
    /\ ev.req.kind = "upsert" =>
          /\ ev.req.bearer = tokenData.token
          /\ tasks[ev.t].pc = "up_wait"
          /\ \/ ev.valid = "yes" /\ ev.ret = None
             \/ ev.valid = "na" /\ ev.ret.kind = "ok" /\ ev.ctx = "proxy"
    /\ ev.valid = "no" =>
          /\ ev.req.kind \in {"refresh", "create"}
          /\ tasks[ev.t].pc \in {"rx_wait", "ct_wait"}
    /\ (ev.ret.kind = "error" /\ ev.ctx = "proxy") =>
          /\ ev.req = None
          /\ ev.cph = ev.ret
          /\ tasks[ev.t].pc # "up_wait"

\* the refresh inside createProxyHost replaced the token and the upsert
\* went out with the new one
C9_Witness ==
    /\ ev.req.kind = "upsert"
    /\ ev.ret.kind = "ok"
    /\ ev.prev.token # tokenData.token
    /\ ev.req.bearer = tokenData.token

\* C10: a refreshToken that fails assigns nothing to the token slot (only a
\* successful refresh or the constructor changes it), and a failure in the
\* timer callback is caught: the timer stays armed and the process runs on.
C10_FailedRefreshKeepsSlot ==
    /\ (ev.ret.kind = "error" \/ ev.act = "refresh_failed") =>
          tokenData = ev.prev
    /\ tokenData # ev.prev => (ev.ret.kind = "ok" \/ ev.act = "boot")
    /\ (ev.ret.kind = "error" /\ ev.ctx = "timer") =>
          /\ timerOn
          /\ exited = "running"
          /\ tasks["timer"].pc = "idle"

\* a timer refresh failed while the slot held a token that has expired
C10_Witness ==
    /\ ev.ret.kind = "error" /\ ev.ctx = "timer"
    /\ tokenData # Null
    /\ tokenData.expires < now
    /\ tokenData = ev.prev

-----------------------------------------------------------------------------
(* The orchestrator: the claims *)

Bootstrap == [token |-> 0, expires |-> 0]

\* the pcs of a task inside proxyApp
PassPcs == {"pa_list", "rx_wait", "ct_wait", "ct_fb_wait", "up_wait"}

\* the sweep is inside proxyApp for one application
MainInPass == tasks["main"].pc \in PassPcs /\ tasks["main"].k >= 1

\* the applications of the listing the orchestrator runs on, the ones the
\* configuration blacklists, and the ones the sweep has to reconcile
ListedApps == <<AppA, AppB>>
Blacklisted == IF config.blacklist = BlacklistB THEN {AppB} ELSE {}
SweepApps == IF config.blacklist = BlacklistB THEN <<AppA>> ELSE ListedApps

\* the configured interval disables the timer
TimerDisabled == config.interval \in {Interval0, IntervalNeg}

\* C11: the token slot is empty, the bootstrap token with the epoch as its
\* expiry, or a token and an expiry taken together from one response; a
\* step that changes the slot installs the whole pair of the response that
\* step received, and a request reads its bearer from that same pair.
C11_WholeValueSwap ==
    /\ \/ tokenData = Null
       \/ tokenData = Bootstrap
       \/ /\ tokenData.token \in 1..(nextTok - 1)
          /\ tokenData.expires \in (1 + TokenTTL)..(now + TokenTTL)
    /\ tokenData # ev.prev =>
          \/ ev.act = "boot" /\ tokenData \in {Null, Bootstrap}
          \/ /\ ev.ret.kind = "ok"
             /\ ev.answer = HttpAnswer(200)
             /\ tokenData = ev.ret.data
             /\ tokenData = [token |-> nextTok - 1, expires |-> now + TokenTTL]
    /\ ev.req.kind \in {"refresh", "upsert"} =>
          ev.req.bearer = tokenData.token

\* a timer refresh replaces a server token by a later one, with a later
\* expiry, while a reconciliation of the sweep waits for its upsert
C11_Witness ==
    /\ ev.ctx = "timer" /\ ev.ret.kind = "ok"
    /\ ev.prev # Null /\ ev.prev.token >= 1
    /\ tokenData.token # ev.prev.token
    /\ tokenData.expires # ev.prev.expires
    /\ tasks["main"].pc = "up_wait"

\* C12: the sweep is inside at most one proxyApp, the one of the application
\* it called last; no event handler runs before the sweep has gone through
\* every listed application; the timer exists from before the sweep on and
\* its refreshToken runs while a reconciliation of the sweep is in flight.
C12_SweepOrdering ==
    LET m == tasks["main"]
    IN  /\ MainInPass =>
              /\ m.k \in 1..Len(m.apps)
              /\ m.app = m.apps[m.k]
              /\ m.called # <<>>
              /\ m.called[Len(m.called)] = m.app
              /\ \A i \in 1..Len(m.called) : \E j \in 1..m.k :
                    m.called[i] = m.apps[j]
        /\ \A e \in EventTasks : tasks[e].pc # "idle" => listening
        /\ listening =>
              /\ m.pc = "steady"
              /\ m.apps = ListedApps
              /\ m.k = Len(m.apps) + 1
        /\ (m.pc \in {"listApps", "sweep"} \/ MainInPass) =>
              /\ ~listening
              /\ timerOn = ~TimerDisabled

\* the timer callback starts a refresh while the sweep waits for the upsert
\* of its second application
C12_Witness ==
    /\ ev.t = "timer" /\ ev.act = "timer"
    /\ tasks["timer"].pc = "rx_wait"
    /\ MainInPass
    /\ tasks["main"].pc = "up_wait"
    /\ tasks["main"].k = 2
    /\ ~listening

\* the step ended a proxyApp in its catch
PassFailed == ev.plan = "error" \/ ev.cph.kind = "error"

\* C13: a failure inside proxyApp (override error, token error, network
\* error, proxy-host error) ends that pass only: the sweep stands at the
\* next application, the subscription is registered once proxyApp was called
\* for every application that is not blacklisted, an event handler that
\* failed is idle again with the subscription in place, and the process
\* exits with status 1 only out of the initialization.
C13_FailureStaysInPass ==
    LET m == tasks["main"]
    IN  /\ PassFailed => exited = "running"
        /\ (PassFailed /\ ev.t = "main") =>
              /\ m.pc = "sweep"
              /\ m.k \in 2..(Len(m.apps) + 1)
              /\ m.apps[m.k - 1] = ev.app
        /\ (PassFailed /\ ev.t \in EventTasks) =>
              /\ tasks[ev.t].pc = "idle"
              /\ listening
        /\ listening => m.called = SweepApps
        /\ exited = "exit(1)" => m.k = 0

\* the upsert of the first application failed with a proxy-host error and
\* the sweep stands at the second application
C13_Witness ==
    /\ PassFailed /\ ev.t = "main"
    /\ ev.app = AppA
    /\ ev.cph.kind = "error"
    /\ ev.cph.error.name = "NPMProxyHostError"
    /\ tasks["main"].pc = "sweep"
    /\ tasks["main"].apps[tasks["main"].k] = AppB

\* C14: no upsert is sent for a blacklisted application, by the sweep or by
\* an event handler: proxyApp is never called for it, and an event handler
\* drops it before the settle delay.
C14_BlacklistNeverUpserted ==
    /\ ev.req.kind = "upsert" =>
          /\ ev.app \notin Blacklisted
          /\ \A b \in Blacklisted :
                ev.req.options.domainName # b \o <<".">> \o DomainName
    /\ \A t \in TaskIds :
          (tasks[t].pc \in PassPcs \cup {"ev_settle"}) =>
              tasks[t].app \notin Blacklisted
    /\ \A i \in 1..Len(tasks["main"].called) :
          tasks["main"].called[i] \notin Blacklisted
    /\ (ev.act = "blacklisted" /\ ev.t \in EventTasks) =>
          tasks[ev.t].pc = "idle"
    /\ (ev.act = "blacklisted" /\ ev.t = "main") =>
          /\ ev.app \in Blacklisted
          /\ tasks["main"].pc = "sweep"

\* a container of the blacklisted application started and its event was
\* dropped
C14_Witness ==
    /\ config.blacklist = BlacklistB
    /\ ev.act = "blacklisted" /\ ev.t \in EventTasks
    /\ tasks[ev.t].pc = "idle"
    /\ tasks["main"].called = <<AppA>>

\* C15: when initializeNPMServer fails (nothing configured, or the first
\* refreshToken fails) the process exits with status 1; the timer was not
\* created, listApps and proxyApp were not called, no handler is registered.
C15_InitFailureIsFatal ==
    LET m == tasks["main"]
    IN  /\ (ev.ctx = "boot" /\ ev.ret.kind = "error") => exited = "exit(1)"
        /\ (config.auth = "none" /\ m.pc # "start") => exited = "exit(1)"
        /\ exited = "exit(1)" =>
              /\ ~timerOn
              /\ ~listening
              /\ m.pc = "exit"
              /\ m.k = 0 /\ m.apps = <<>> /\ m.called = <<>>
              /\ \A t \in TaskIds \ {"main"} : tasks[t] = IdleTask
              /\ ev.req = None

\* started from a bootstrap token the server refused to refresh
C15_Witness ==
    /\ exited = "exit(1)"
    /\ config.auth = "token"
    /\ ev.act = "refresh_failed"
    /\ ev.answer = HttpAnswer(401)
    /\ tokenData = Bootstrap

\* C16: with NPM_MAIL, NPM_PASSWORD and NPM_TOKEN all set the server object
\* holds the credential pair and its slot starts empty: the bootstrap token
\* is never in the slot nor in a bearer, and the first token comes from the
\* create-token call.
C16_CredentialsPreferred ==
    config.auth = "both" =>
        /\ tasks["main"].pc # "start" =>
              credentials = [identity |-> "mail", secret |-> "password"]
        /\ tokenData # Bootstrap
        /\ tokenData # Null => tokenData.token >= 1
        /\ ev.req.kind \in {"refresh", "upsert"} => ev.req.bearer >= 1
        /\ ev.act = "boot" => (ev.req.kind = "create" /\ tokenData = Null)
        /\ (ev.ctx = "boot" /\ ev.ret.kind = "ok") => ev.ret.via = "create"

\* both configured: NPMServer.create obtained the first token by create-token
C16_Witness ==
    /\ config.auth = "both"
    /\ ev.ctx = "boot" /\ ev.ret.kind = "ok" /\ ev.ret.via = "create"
    /\ ev.prev = Null
    /\ tokenData.token = 1

\* C17: with an interval <= 0 the timer is never created and no refreshToken
\* is started by it; with an interval > 0 the timer exists once the
\* initialization succeeded, and each of its ticks starts a refreshToken
\* (a request leaves) whether or not the token is still valid.
C17_TimerByInterval ==
    /\ TimerDisabled =>
          /\ ~timerOn
          /\ tasks["timer"] = IdleTask
          /\ ev.t # "timer" /\ ev.ctx # "timer"
    /\ (~TimerDisabled /\ exited = "running"
        /\ tasks["main"].pc \notin {"start", "exit"}
        /\ tasks["main"].ctx # "boot") => timerOn
    /\ ev.act = "timer" =>
          /\ ev.req.kind = "refresh"
          /\ ev.req.bearer = tokenData.token
          /\ tasks["timer"].pc = "rx_wait"

\* a tick starts a refresh of a token that is valid for the full lifetime
C17_Witness ==
    /\ ev.act = "timer"
    /\ tokenData # Null
    /\ MinutesLeft = TokenTTL
    /\ isTokenValid(tokenData, now)
    /\ ev.req.kind = "refresh"

\* C18: once main() has registered its handlers, a SIGINT or SIGTERM stops
\* the timer and the process exits with status 0 in that same step, whatever
\* the other tasks are waiting for; nothing runs after it (the signal is the
\* last step taken), so no refreshToken of the timer starts after it.
C18_SignalStopsTimer ==
    /\ (ev.t = "signal" /\ listening) =>
          /\ exited = "exit(0)"
          /\ ~timerOn
    /\ exited = "exit(0)" =>
          /\ ~timerOn
          /\ listening
          /\ ev.t = "signal"
          /\ ev.act \in {"SIGINT", "SIGTERM"}

\* SIGTERM ends the process while an event handler waits for its upsert and
\* a refresh of the timer is in flight
C18_Witness ==
    /\ exited = "exit(0)"
    /\ ev.act = "SIGTERM"
    /\ ~timerOn
    /\ tasks["timer"].pc = "rx_wait"
    /\ \E e \in EventTasks : tasks[e].pc = "up_wait"

\* C19: a create-token call the server rejects (401) raises an
\* authentication error, a rejected refresh raises a token error, and a
\* token call without a response raises a network error.
C19_ErrorClasses ==
    /\ (ev.act = "create_failed" /\ ev.answer = HttpAnswer(401)) =>
          ev.ret.error.name = "NPMAuthenticationError"
    /\ (ev.act = "refresh_failed" /\ ev.answer = HttpAnswer(401)
        /\ ev.ret.kind = "error") =>
          ev.ret.error.name = "NPMTokenError"
    /\ (ev.act = "create_failed" /\ ev.answer = NoResponse) =>
          ev.ret.error.name = "NPMNetworkError"

\* C20: the request of a reconciliation that has a target: the domain is the
\* application name, a dot and the domain suffix; the forward host is built
\* from the labels of the selected container; port and scheme are the
\* target's; the application name is the project label without "ix-".  The
\* radarr container exposing only 7878 gives radarr.<domain>, http,
\* radarr.ix-radarr.svc.cluster.local, 7878.
C20_RequestFields ==
    /\ sel.kind = "call" =>
          /\ sel.options.domainName = sel.app \o <<".">> \o DomainName
          /\ sel.options.forwardHost =
                sel.container.Labels.service \o <<".">>
                    \o sel.container.Labels.project \o ClusterSuffix
          /\ sel.options.port = sel.port
          /\ sel.options.scheme = sel.scheme
          /\ sel.container.Labels.project = IxPrefix \o sel.app
          /\ \E i \in 1..Len(docker) : docker[i] = sel.container
    /\ LET radarr == <<"r", "a", "d", "a", "r", "r">>
           c == [Id |-> 1,
                 Names |-> << <<"/">> \o IxPrefix \o radarr \o <<"_">>
                                \o radarr \o <<"_", "1">> >>,
                 Labels |-> [project |-> IxPrefix \o radarr,
                             service |-> radarr],
                 HostConfig |-> [NetworkMode |-> ModeBridge],
                 Ports |-> <<7878>>]
           t == proxyAppTarget(<<c>>, env, getAppName(c))
       IN  /\ getAppName(c) = radarr
           /\ t.kind = "target"
           /\ proxyAppOptions(t, getAppName(c), DomainName) =
                 [domainName |-> radarr \o <<".">> \o DomainName,
                  scheme |-> "http",
                  forwardHost |-> radarr \o <<".", "i", "x", "-">> \o radarr
                                     \o ClusterSuffix,
                  port |-> 7878]

\* of two eligible containers with different service labels the second is
\* selected and the forward host is built from its labels
C20_Witness ==
    /\ sel.kind = "call" /\ sel.app = AppA
    /\ Len(docker) = 2
    /\ EligibleAt(AppA) = {1, 2}
    /\ docker[1].Labels.service = <<"w">>
    /\ docker[2].Labels.service = <<"d">>
    /\ sel.container.Id = 2
    /\ sel.options.forwardHost = <<"d", ".">> \o ProjIxA \o ClusterSuffix
    /\ sel.options.domainName = <<"a", ".", "e", ".", "x">>

-----------------------------------------------------------------------------
(* The token manager, the event handlers and the namespace: further claims *)

\* C21: ensureValidToken on a valid token sends no token call and leaves the
\* slot alone (the upsert goes out at once); on an empty slot or a token
\* with 5 minutes or less to live it starts one refreshToken, after which
\* the upsert goes out without a second check, and a failure of that
\* refreshToken is what createProxyHost throws.
C21_EnsureValidToken ==
    /\ ev.act = "createProxyHost" =>
          /\ tokenData = ev.prev
          /\ ev.valid = "no" <=>
                (tokenData = Null \/ tokenData.expires <= now + 5)
    /\ (ev.act = "createProxyHost" /\ ev.valid = "yes") =>
          /\ ev.req.kind = "upsert"
          /\ ev.ret = None
          /\ tasks[ev.t].pc = "up_wait"
    /\ (ev.act = "createProxyHost" /\ ev.valid = "no") =>
          /\ ev.req.kind \in {"refresh", "create"}
          /\ tasks[ev.t].pc \in {"rx_wait", "ct_wait"}
          /\ tasks[ev.t].ctx = "proxy"
    /\ (ev.ctx = "proxy" /\ ev.ret.kind = "ok") =>
          /\ ev.req.kind = "upsert"
          /\ tasks[ev.t].pc = "up_wait"
    /\ (ev.ctx = "proxy" /\ ev.ret.kind = "error") =>
          /\ ev.cph = ev.ret
          /\ ev.req = None
          /\ tasks[ev.t].pc \notin PassPcs

\* the token is valid: the upsert leaves in the step that checked it
C21_Witness ==
    /\ ev.act = "createProxyHost" /\ ev.valid = "yes"
    /\ ev.req.kind = "upsert"
    /\ tokenData.token >= 1
    /\ MinutesLeft = 6

\* the step called refreshToken
CallsRefreshToken ==
    \/ ev.act \in {"boot", "timer"}
    \/ ev.act = "createProxyHost" /\ ev.valid = "no"

\* C22: refreshToken sends refresh-existing first whenever the slot holds a
\* token, with that token as bearer, and create-token only when the slot is
\* empty or after the refresh-existing call failed; a manager built from a
\* credential pair starts with create-token, one built from a bootstrap
\* token starts with that token and an expiry in the past and sends
\* refresh-existing with it.
C22_RefreshOrder ==
    /\ ev.req.kind = "refresh" =>
          /\ CallsRefreshToken
          /\ tokenData # Null
          /\ ev.req.bearer = tokenData.token
    /\ ev.req.kind = "create" =>
          /\ credentials # Null
          /\ \/ ev.act = "refresh_failed"
             \/ CallsRefreshToken /\ tokenData = Null
    /\ (CallsRefreshToken /\ tokenData # Null) => ev.req.kind = "refresh"
    /\ (ev.act = "boot" /\ config.auth \in {"credentials", "both"}) =>
          /\ tokenData = Null
          /\ ev.req = [kind |-> "create"]
    /\ (ev.act = "boot" /\ config.auth = "token") =>
          /\ tokenData = Bootstrap
          /\ tokenData.expires < now
          /\ ~isTokenValid(tokenData, now)
          /\ ev.req = [kind |-> "refresh", bearer |-> Bootstrap.token]

\* a manager that holds a credential pair and a token: the timer's
\* refreshToken starts with refresh-existing
C22_Witness ==
    /\ ev.act = "timer"
    /\ credentials # Null
    /\ tokenData # Null
    /\ ev.req = [kind |-> "refresh", bearer |-> tokenData.token]

\* the step ended a refreshToken whose refresh-existing call had failed:
\* no credential pair to fall back to, or the fallback failed too
RefreshAndFallbackFailed ==
    \/ ev.act = "refresh_failed" /\ credentials = Null
    \/ ev.act = "create_failed" /\ ev.ctx \in {"timer", "proxy"}

\* C23 as claimed: when the refresh-existing call fails and there is no
\* credential pair, or the fallback fails too, refreshToken raises and the
\* manager is left without a usable token.
C23_FailedRefreshUnauthenticated ==
    RefreshAndFallbackFailed =>
        /\ ev.ret.kind = "error"
        /\ ~isTokenValid(tokenData, now)

\* C23 amended: in that case refreshToken raises a token or network error
\* and the slot is what it was before the step: the token held stays in the
\* slot, usable or not as it was.
C23_FailedRefreshKeepsToken ==
    RefreshAndFallbackFailed =>
        /\ ev.ret.kind = "error"
        /\ ev.ret.error.name \in {"NPMTokenError", "NPMNetworkError"}
        /\ tokenData = ev.prev
        /\ tokenData # Null
        /\ isTokenValid(tokenData, now) <=> (MinutesLeft > 5)
        /\ ev.ctx = "boot" => exited = "exit(1)"
        /\ ev.ctx = "proxy" => (ev.cph = ev.ret /\ ev.req = None)
        /\ ev.ctx = "timer" => tasks["timer"] = IdleTask

\* the timer's refresh of a bootstrap-token manager fails while the token
\* it holds is still valid
C23_Witness ==
    /\ RefreshAndFallbackFailed
    /\ ev.ctx = "timer"
    /\ credentials = Null
    /\ isTokenValid(tokenData, now)
    /\ tokenData.token >= 1

\* C24: refreshToken calls overlap; each one that succeeds installs the
\* complete pair of its own response, so the slot holds the pair of the one
\* that completed last and is valid, its caller goes on (the upsert leaves
\* with that token), and a refreshToken fails only on a failed answer to
\* its own call.
C24_OverlappingRefreshes ==
    /\ ev.ret.kind = "ok" =>
          /\ tokenData = ev.ret.data
          /\ tokenData = [token |-> nextTok - 1, expires |-> now + TokenTTL]
          /\ isTokenValid(tokenData, now)
          /\ ev.cph = None
          /\ ev.ctx = "proxy" =>
                /\ ev.req.kind = "upsert"
                /\ ev.req.bearer = tokenData.token
    /\ (ev.ret.kind = "error" /\ ev.ctx \in {"timer", "proxy"}
        /\ ev.act \in {"refresh_failed", "create_failed"}) =>
          ev.answer \in TokenFailures

\* two handlers refreshed at once: the second one completes on a slot that
\* the other's refresh, begun on the same stale token, already replaced
C24_Witness ==
    /\ ev.t = "e2" /\ ev.ctx = "proxy" /\ ev.ret.kind = "ok"
    /\ isTokenValid(ev.prev, now)
    /\ tokenData.token # ev.prev.token
    /\ tasks["e1"].pc = "up_wait"
    /\ tasks["e2"].pc = "up_wait"
    /\ tasks["timer"].pc = "rx_wait"

FetchActs == {"not_found", "not_ix", "blacklisted", "settle"}

\* C25: an event whose container is not found, or whose container's project
\* lacks the prefix, ends its handler in that step: no settle delay, no
\* selection, no request; a handler past that step has a container of the
\* namespace.
C25_EventDiscarded ==
    /\ (ev.t \in EventTasks /\ ev.act \in FetchActs) =>
          /\ ev.cid = 0 <=> ev.act = "not_found"
          /\ (ev.cid # 0 /\ docker[ev.cid].Labels.project
                                \notin {ProjIxA, ProjIxB}) <=>
                ev.act = "not_ix"
    /\ ev.act \in {"not_found", "not_ix"} =>
          /\ ev.t \in EventTasks
          /\ tasks[ev.t] = IdleTask
          /\ ev.req = None
          /\ ev.plan = "none"
    /\ \A e \in EventTasks :
          tasks[e].pc \in PassPcs \cup {"ev_settle"} =>
              /\ tasks[e].cid # 0
              /\ docker[tasks[e].cid].Labels.project \in {ProjIxA, ProjIxB}

\* the container of project x started: its event is dropped
C25_Witness ==
    /\ ev.act = "not_ix"
    /\ ev.cid = 4
    /\ docker[4].Labels.project = <<"x">>
    /\ tasks[ev.t] = IdleTask

\* C26: every event of a namespaced application that is not blacklisted goes
\* to the settle delay and from there, and only from there, into one
\* proxyApp for that application, whatever other handler is running; a pass
\* sends its upsert once, and an upsert answered 400 ends its pass without
\* an error.
C26_EventPasses ==
    /\ [](/\ (ev.t \in EventTasks /\ ev.act \in FetchActs) =>
                /\ (/\ ev.cid # 0
                    /\ docker[ev.cid].Labels.project \in {ProjIxA, ProjIxB}
                    /\ getAppName(docker[ev.cid]) \notin Blacklisted) <=>
                      ev.act = "settle"
                /\ ev.act = "settle" =>
                      /\ tasks[ev.t].pc = "ev_settle"
                      /\ IxPrefix \o tasks[ev.t].app =
                            docker[ev.cid].Labels.project
          /\ (ev.act = "upsert_answer" /\ ev.answer.kind # "no_response"
              /\ ev.answer.status = 400) =>
                /\ ev.cph = [kind |-> "ok"]
                /\ ev.t \in EventTasks => tasks[ev.t] = IdleTask)
    /\ [][\A e \in EventTasks :
             /\ (tasks[e].pc # "pa_list" /\ tasks'[e].pc = "pa_list") =>
                   /\ tasks[e].pc = "ev_settle"
                   /\ tasks'[e].app = tasks[e].app
             /\ (tasks[e].pc = "ev_settle" /\ tasks'[e] # tasks[e]) =>
                   tasks'[e].pc = "pa_list"
             /\ (tasks[e].pc \in PassPcs /\ tasks'[e].pc \notin PassPcs) =>
                   tasks'[e] = IdleTask]_vars

\* two events of application a: both passes wait for their upsert at once
C26_Witness ==
    /\ tasks["e1"].pc = "up_wait"
    /\ tasks["e2"].pc = "up_wait"
    /\ tasks["e1"].app = AppA
    /\ tasks["e2"].app = AppA
    /\ tasks["e1"].opts = tasks["e2"].opts

\* C27: a createProxyHost that has sent its upsert ends with the answer,
\* whatever it is; a pass never comes back to an earlier point of proxyApp;
\* after a failure the task is at the next application or idle, and the
\* sweep calls proxyApp once for each application.
C27_NoRetries ==
    /\ [](/\ PassFailed => tasks[ev.t].pc \in {"sweep", "idle"}
          /\ \A i, j \in 1..Len(tasks["main"].called) :
                i # j => tasks["main"].called[i] # tasks["main"].called[j])
    /\ [][\A t \in TaskIds :
             /\ (tasks[t].pc = "up_wait" /\ tasks'[t] # tasks[t]) =>
                   /\ tasks'[t].pc \in {"sweep", "idle"}
                   /\ ev'.act = "upsert_answer"
                   /\ ev'.req = None
             /\ (tasks[t].pc \in PassPcs \ {"pa_list"}) =>
                   tasks'[t].pc # "pa_list"]_vars

\* an upsert without a response: the handler ends, nothing is sent again
C27_Witness ==
    /\ ev.act = "upsert_answer"
    /\ ev.answer = NoResponse
    /\ ev.cph.error = NPMNetworkError
    /\ ev.t = "e1"
    /\ tasks["e1"] = IdleTask
    /\ ev.req = None

\* the proxy manager of the model has issued all its tokens
ServerExhausted == nextTok > MaxTok

\* C28: a failed refreshToken leaves the timer armed and its callback idle,
\* and a createProxyHost on a token that is not valid calls refreshToken
\* again; a refreshToken the server accepts makes the token valid; and with
\* the timer ticking and a server that does not refuse for ever, a failed
\* refreshToken is followed by a valid token (unless the process ends).
C28_NoLatch ==
    /\ []((ev.ret.kind = "error" /\ ev.ctx = "timer") =>
              (timerOn /\ tasks["timer"] = IdleTask))
    /\ []((ev.act = "timer"
            \/ (ev.act = "createProxyHost" /\ ev.valid = "no")) =>
              ev.req.kind \in {"refresh", "create"})
    /\ [](ev.ret.kind = "ok" => isTokenValid(tokenData, now))
    /\ (ev.ret.kind = "error" /\ ev.ctx \in {"timer", "proxy"} /\ timerOn)
          ~> (isTokenValid(tokenData, now) \/ ~Running \/ ServerExhausted)

\* a refreshToken of the timer failed on a token that is no longer valid,
\* and the server still has tokens to give
C28_Witness ==
    /\ ev.ret.kind = "error" /\ ev.ctx = "timer"
    /\ timerOn /\ Running
    /\ ~ServerExhausted
    /\ ~isTokenValid(tokenData, now)

\* C29: a selected container has a project label that starts with "ix-"; a
\* container whose project is the bare application name is never selected;
\* listApps gives one name for each prefixed project label of the listing,
\* each once, and nothing else.
C29_NamespaceOnly ==
    /\ sel.kind = "call" =>
          /\ SubSeq(sel.container.Labels.project, 1, 3) = <<"i", "x", "-">>
          /\ sel.container.Labels.project # sel.app
    /\ SelRan =>
          /\ \A i \in 1..Len(sel.apps) :
                \E j \in 1..Len(docker) :
                    docker[j].Labels.project = <<"i", "x", "-">> \o sel.apps[i]
          /\ \A j \in 1..Len(docker) :
                docker[j].Labels.project \in {ProjIxA, ProjIxB} =>
                    \E i \in 1..Len(sel.apps) :
                        <<"i", "x", "-">> \o sel.apps[i]
                            = docker[j].Labels.project
          /\ \A i, k \in 1..Len(sel.apps) : i # k => sel.apps[i] # sel.apps[k]

\* a container of project a exposing 443 stands before the container of
\* project ix-a, which is selected; two containers of ix-a give one name
C29_Witness ==
    /\ sel.kind = "call" /\ sel.app = AppA
    /\ Len(docker) = 2
    /\ docker[1].Labels.project = AppA
    /\ docker[1].HostConfig.NetworkMode = ModeBridge
    /\ docker[1].Ports = <<443>>
    /\ sel.container.Id = 2
    /\ sel.apps = <<AppA>>

\* NPMServer.create has resolved
Handed ==
    /\ tasks["main"].pc \notin {"start", "exit"}
    /\ tasks["main"].ctx # "boot"

\* C30: once NPMServer.create has resolved the slot holds a token issued by
\* the server in every state, and every upsert carries the token of the
\* slot.
C30_SlotNeverEmptied ==
    /\ Handed =>
          /\ tokenData # Null
          /\ tokenData.token >= 1
    /\ (\E t \in TaskIds \ {"main"} : tasks[t] # IdleTask) => tokenData # Null
    /\ ev.req.kind = "upsert" =>
          /\ tokenData # Null
          /\ ev.req.bearer = tokenData.token

\* the refresh inside createProxyHost failed on an expired token, which is
\* still in the slot
C30_Witness ==
    /\ Handed
    /\ ev.ctx = "proxy" /\ ev.ret.kind = "error"
    /\ tokenData # Null
    /\ tokenData.expires <= now

\* C31: a manager without a credential pair never sends a create-token
\* call, and its refreshToken whose refresh-existing call failed throws a
\* token error without a status, also when the call failed for want of a
\* response; with a credential pair the failed refresh-existing call is
\* followed by create-token, and the error of a failed fallback is the one
\* of the create-token call, whatever refreshExistingToken had thrown.
C31_FallbackError ==
    /\ credentials = Null =>
          /\ ev.req.kind # "create"
          /\ \A t \in TaskIds : tasks[t].pc \notin {"ct_wait", "ct_fb_wait"}
          /\ ev.act = "refresh_failed" =>
                /\ ev.ret = [kind |-> "error",
                             error |-> NPMTokenError(NoStatusCode)]
                /\ ev.ret.error # NPMNetworkError
                /\ ev.req = None
    /\ (credentials # Null /\ ev.act = "refresh_failed") =>
          /\ ev.ret = None
          /\ ev.req = [kind |-> "create"]
          /\ tasks[ev.t].pc = "ct_fb_wait"
          /\ tasks[ev.t].rx = tokenCallError(ev.answer)
    /\ (ev.act = "create_failed" /\ ev.first # None) =>
          /\ credentials # Null
          /\ ev.ret = [kind |-> "error", error |-> tokenCallError(ev.answer)]

\* the refresh-existing call of a bootstrap-token manager got no response:
\* its caller sees a token error
C31_Witness ==
    /\ credentials = Null
    /\ ev.act = "refresh_failed"
    /\ ev.answer = NoResponse
    /\ ev.ret.error.name = "NPMTokenError"
    /\ tokenData # Null

\* refresh-existing got no response, the fallback was answered 401: the
\* caller sees the token error of the fallback
C31_WitnessFallback ==
    /\ ev.act = "create_failed"
    /\ ev.first = NPMNetworkError
    /\ ev.answer = HttpAnswer(401)
    /\ ev.ret.error = NPMTokenError(401)

=============================================================================
